---- MODULE Spec2Model ----
(***************************************************************************)
(* Model of the podcast platform server (src/server.js): the Express       *)
(* handlers that record views, sign users up, toggle favourites and store  *)
(* and serve videos, over the three MongoDB collections Video, User and    *)
(* Stats.  Every handler is an async function: each `await` of a database  *)
(* call is one atomic step of the database, and handlers of different      *)
(* requests interleave between those steps.  A mongoose document is a      *)
(* private copy of the stored record; save() writes back only the paths    *)
(* the handler modified.                                                   *)
(***************************************************************************)
EXTENDS Integers, Sequences, FiniteSets, TLC

(* ------------------------------ bounds -------------------------------- *)
\* number of requests the server receives in one run
MaxReq == 3
\* number of database calls that may be rejected in one run
MaxFail == 1
\* last instant of the clock; TicksPerDay instants make one UTC calendar date
MaxClock == 2
TicksPerDay == 2

Req == 1..MaxReq

(* ------------------------------ inputs -------------------------------- *)
\* ObjectIds are numbers; a route parameter carries the 24-digit hex string.
\* Route parameters are well-formed identifiers throughout: a string that is
\* no ObjectId at all is rejected by mongoose's cast (a CastError, answered
\* 500 by the handler's catch) and identifies nothing.
ObjectIds == {1, 2}
HexOf(oid) == <<"hex", oid>>
CastObjectId(hex) == hex[2]
HexIds == {HexOf(o) : o \in ObjectIds}

MimeTypes == {"video/mp4", "video/webm"}
\* the uploads clients submit: a category, a MIME type the fileFilter accepts,
\* and the file's bytes
Uploads == {[category |-> "news", mimetype |-> "video/mp4", buffer |-> "bytesA"],
            [category |-> "music", mimetype |-> "video/webm", buffer |-> "bytesB"],
            [category |-> "news", mimetype |-> "video/mp4", buffer |-> "bytesB"]}
\* file.originalname: the name goes with the type, as the fileFilter demands
OriginalName(mimetype) == IF mimetype = "video/mp4" THEN "a.mp4" ELSE "a.webm"
\* the categories clients list by
ListCategories == {"news", "music", "talk"}
\* e-mail addresses as character sequences
EmailA == <<"a", "@", "x", ".", "y">>
EmailB == <<"b", "@", "x", ".", "y">>
EmailBad == <<"a", "@", "x">>
Emails == {EmailA, EmailB}
EmailInputs == {EmailA, EmailB, EmailBad}
PasswordLengths == {5, 6}

(* --------------------------- stored records --------------------------- *)
\* videoSchema; exists = FALSE stands for "no such document" (null)
NoVideo ==
    [exists |-> FALSE, podcastName |-> "", category |-> "", filename |-> "",
     contentType |-> "", video |-> "", views |-> 0]

\* userSchema (the password hash and the role are never read by the handlers
\* below and are left out); v is the document's version key __v
NoUser == [exists |-> FALSE, favorites |-> <<>>, v |-> 0]

\* statsSchema; signupHistory entries are [date |-> instant, count |-> n]
NoStats ==
    [exists |-> FALSE, totalSignups |-> 0, totalViews |-> 0,
     signupHistory |-> <<>>, v |-> 0]

\* Stats.create({ totalSignups: 0, totalViews: 0, signupHistory: [] })
ZeroStats == [NoStats EXCEPT !.exists = TRUE]

(* ------------------------------ requests ------------------------------ *)
NoArg ==
    [op |-> "none", id |-> HexOf(0), email |-> <<>>, session |-> FALSE,
     pwlen |-> 0, file |-> FALSE, mimetype |-> "", buffer |-> "",
     category |-> "", podcastName |-> "", filter |-> FALSE]

NoLocals == [video |-> NoVideo, stats |-> NoStats, user |-> NoUser, today |-> 0,
             oid |-> 0, before |-> <<>>]

\* status 0: no response sent yet; err: the error the handler's catch caught;
\* json: the fields of a JSON object body; list: the entries of a JSON array
NoResp == [status |-> 0, err |-> "", contentType |-> "", body |-> "",
           favorites |-> <<>>, json |-> [message |-> <<>>], list |-> <<>>]

VARIABLES
    videos,     \* Video collection: ObjectId -> video record
    users,      \* User collection: e-mail -> user record
    stats,      \* Stats collection: its one document, or NoStats
    clock,      \* the server's clock (Date.now), in instants
    initPc,     \* position of initializeStats()
    nextId,     \* ObjectIds handed out so far by new Video()
    fails,      \* database calls rejected so far
    pc,         \* position of each request's handler
    arg,        \* each request's inputs (params, body, session, file)
    loc,        \* each handler's local documents
    resp,       \* the response each request received
    wrote       \* which collections each request has written

vars == <<videos, users, stats, clock, initPc, nextId, fails, pc, arg, loc, resp, wrote>>
dbVars == <<videos, users, stats>>
envVars == <<clock, initPc, nextId>>

\* a request that has been answered, or whose handler has ended without answer
Ended(r) == pc[r] \in {"done", "hung"}
InFlight(r) == pc[r] \notin {"idle", "done", "hung"}

\* the handler returns: its local documents are dropped (oid, the identifier
\* new Video() drew, today, the instant new Date() gave, and before, the
\* favourites findOne returned, are kept as a record of the run)
Return(r, to) ==
    /\ pc' = [pc EXCEPT ![r] = to]
    /\ loc' = [loc EXCEPT ![r] = [NoLocals EXCEPT !.oid = loc[r].oid,
                                                  !.today = loc[r].today,
                                                  !.before = loc[r].before]]

Reply(r, response) ==
    /\ resp' = [resp EXCEPT ![r] = response]
    /\ Return(r, "done")

Respond(r, status) == Reply(r, [NoResp EXCEPT !.status = status])

\* catch (err) { res.status(500) }
Catch(r, err) == Reply(r, [NoResp EXCEPT !.status = 500, !.err = err])

\* the handler's promise is rejected outside any try: no response is ever sent
Hang(r) ==
    /\ Return(r, "hung")
    /\ UNCHANGED resp

\* requests are numbered in the order in which they arrive
Arrives(r) == pc[r] = "idle" /\ \A q \in Req : q < r => pc[q] # "idle"

Begin(r, a, first) ==
    /\ Arrives(r)
    /\ arg' = [arg EXCEPT ![r] = a]
    /\ pc' = [pc EXCEPT ![r] = first]

\* a database call that is rejected (the backing store is unreachable)
CanFail == fails < MaxFail

Fail(r) ==
    /\ CanFail
    /\ fails' = fails + 1
    /\ Catch(r, "StorageError")

(* ------------------------- initializeStats() --------------------------- *)
\* const statsCount = await Stats.countDocuments()
InitCount ==
    /\ initPc = "count"
    /\ initPc' = IF stats.exists THEN "done" ELSE "create"
    /\ UNCHANGED <<dbVars, clock, nextId, fails, pc, arg, loc, resp, wrote>>

\* await Stats.create({...})
InitCreate ==
    /\ initPc = "create"
    /\ initPc' = "done"
    /\ stats' = ZeroStats
    /\ UNCHANGED <<videos, users, clock, nextId, fails, pc, arg, loc, resp, wrote>>

(* --------------------------- mongoose save() --------------------------- *)
\* a save() that writes back a document loaded without its payload
SaveViewsWithoutPayload(doc, local) ==
    [doc EXCEPT !.views = local.views + 1, !.video = ""]

\* video.views += 1; video.save(): $set of the one modified path, views
SaveViews(doc, local) == [doc EXCEPT !.views = local.views + 1]

\* stats.totalViews += 1; stats.save(): $set of the one modified path
SaveTotalViews(doc, local) == [doc EXCEPT !.totalViews = local.totalViews + 1]

\* res.contentType(type): a type without "/" is looked up as a file extension
MimeLookup(ext) ==
    CASE ext = "mp4" -> "video/mp4"
      [] ext = "webm" -> "video/webm"
      [] OTHER -> "application/octet-stream"
ResContentType(type) == IF type \in MimeTypes THEN type ELSE MimeLookup(type)

(* --------------------------- GET /video/:id ---------------------------- *)
StartVideo(r) ==
    \E id \in HexIds :
        /\ Begin(r, [NoArg EXCEPT !.op = "video", !.id = id], "v_find")
        /\ UNCHANGED <<dbVars, envVars, fails, loc, resp, wrote>>

\* the document findById returns: null when no video has that identifier
FindVideoById(id) == videos[CastObjectId(id)]

\* the lookup without its null check: video.views throws on null
VideoFindUnchecked(r) ==
    /\ pc[r] = "v_find"
    /\ LET video == FindVideoById(arg[r].id) IN
        IF ~video.exists
        THEN Catch(r, "TypeError")
        ELSE /\ loc' = [loc EXCEPT ![r].video = video]
             /\ pc' = [pc EXCEPT ![r] = "v_save"]
             /\ UNCHANGED resp
    /\ UNCHANGED <<dbVars, envVars, fails, arg, wrote>>

\* const video = await Video.findById(videoId); if (!video) return 404
VideoFind(r) ==
    /\ pc[r] = "v_find"
    /\ LET video == FindVideoById(arg[r].id) IN
        IF ~video.exists
        THEN Respond(r, 404)
        ELSE /\ loc' = [loc EXCEPT ![r].video = video]
             /\ pc' = [pc EXCEPT ![r] = "v_save"]
             /\ UNCHANGED resp
    /\ UNCHANGED <<dbVars, envVars, fails, arg, wrote>>

\* video.views += 1; await video.save()
VideoSave(r) ==
    /\ pc[r] = "v_save"
    /\ LET oid == CastObjectId(arg[r].id) IN
        /\ videos' = [videos EXCEPT ![oid] = SaveViews(@, loc[r].video)]
        /\ loc' = [loc EXCEPT ![r].video.views = @ + 1]
    /\ wrote' = [wrote EXCEPT ![r] = @ \cup {"video"}]
    /\ pc' = [pc EXCEPT ![r] = "v_stats"]
    /\ UNCHANGED <<users, stats, envVars, fails, arg, resp>>

\* const stats = await Stats.findOne(); stats.totalViews += 1 throws on null
VideoStatsFind(r) ==
    /\ pc[r] = "v_stats"
    /\ IF ~stats.exists
       THEN Catch(r, "TypeError")
       ELSE /\ loc' = [loc EXCEPT ![r].stats = stats]
            /\ pc' = [pc EXCEPT ![r] = "v_ssave"]
            /\ UNCHANGED resp
    /\ UNCHANGED <<dbVars, envVars, fails, arg, wrote>>

\* await stats.save(); res.contentType(video.contentType); res.send(video.video)
VideoStatsSave(r) ==
    /\ pc[r] = "v_ssave"
    /\ stats' = SaveTotalViews(stats, loc[r].stats)
    /\ wrote' = [wrote EXCEPT ![r] = @ \cup {"stats"}]
    /\ Reply(r, [NoResp EXCEPT !.status = 200,
                                !.contentType = ResContentType(loc[r].video.contentType),
                                !.body = loc[r].video.video])
    /\ UNCHANGED <<videos, users, envVars, fails, arg>>

\* catch (err): res.status(500), whichever database call was rejected
VideoFail(r) ==
    /\ pc[r] \in {"v_find", "v_save", "v_stats", "v_ssave"}
    /\ Fail(r)
    /\ UNCHANGED <<dbVars, envVars, arg, wrote>>

(* -------------------------------- GET / -------------------------------- *)
StartHome(r) ==
    /\ Begin(r, [NoArg EXCEPT !.op = "home"], "h_find")
    /\ UNCHANGED <<dbVars, envVars, fails, loc, resp, wrote>>

\* const stats = await Stats.findOne(); there is no try/catch: on null the
\* handler's promise is rejected and no response is sent
HomeFind(r) ==
    /\ pc[r] = "h_find"
    /\ IF ~stats.exists
       THEN Hang(r)
       ELSE /\ loc' = [loc EXCEPT ![r].stats = stats]
            /\ pc' = [pc EXCEPT ![r] = "h_save"]
            /\ UNCHANGED resp
    /\ UNCHANGED <<dbVars, envVars, fails, arg, wrote>>

\* stats.totalViews += 1; await stats.save(); res.sendFile(index.html)
HomeSave(r) ==
    /\ pc[r] = "h_save"
    /\ stats' = SaveTotalViews(stats, loc[r].stats)
    /\ wrote' = [wrote EXCEPT ![r] = @ \cup {"stats"}]
    /\ Respond(r, 200)
    /\ UNCHANGED <<videos, users, envVars, fails, arg>>

\* a rejected database call: the rejection is unhandled, no response is sent
HomeFail(r) ==
    /\ pc[r] \in {"h_find", "h_save"}
    /\ CanFail
    /\ fails' = fails + 1
    /\ Hang(r)
    /\ UNCHANGED <<dbVars, envVars, arg, wrote>>

(* ----------------------------- POST /upload ---------------------------- *)
PodcastNames == {"show"}

\* new Video({...}): the schema default gives views = 0
NewVideo(a) ==
    [exists |-> TRUE, podcastName |-> a.podcastName, category |-> a.category,
     filename |-> OriginalName(a.mimetype), contentType |-> a.mimetype,
     video |-> a.buffer, views |-> 0]

\* if (!file) return 400; const newVideo = new Video({...}) draws a fresh _id
StartUpload(r) ==
    \/ /\ Arrives(r)
       /\ arg' = [arg EXCEPT ![r] = [NoArg EXCEPT !.op = "upload"]]
       /\ Respond(r, 400)
       /\ UNCHANGED <<dbVars, envVars, fails, wrote>>
    \/ \E f \in Uploads, n \in PodcastNames :
        /\ nextId + 1 \in ObjectIds
        /\ Begin(r, [NoArg EXCEPT !.op = "upload", !.file = TRUE, !.mimetype = f.mimetype,
                                  !.buffer = f.buffer, !.category = f.category, !.podcastName = n],
                 "u_save")
        /\ nextId' = nextId + 1
        /\ loc' = [loc EXCEPT ![r].oid = nextId + 1]
        /\ UNCHANGED <<dbVars, clock, initPc, fails, resp, wrote>>

\* await newVideo.save(); res.status(200).json({ message: 'Upload successful!' })
UploadSave(r) ==
    /\ pc[r] = "u_save"
    /\ videos' = [videos EXCEPT ![loc[r].oid] = NewVideo(arg[r])]
    /\ wrote' = [wrote EXCEPT ![r] = @ \cup {"video"}]
    /\ Reply(r, [NoResp EXCEPT !.status = 200,
                                !.json = [message |-> <<"Upload successful!">>]])
    /\ UNCHANGED <<users, stats, envVars, fails, arg>>

UploadFail(r) ==
    /\ pc[r] = "u_save"
    /\ Fail(r)
    /\ UNCHANGED <<dbVars, envVars, arg, wrote>>

(* ------------------- GET /videos, GET /videos/:category ---------------- *)
\* the projection 'filename podcastName _id' of one stored video
Projection(o) ==
    [_id |-> HexOf(o), filename |-> videos[o].filename,
     podcastName |-> videos[o].podcastName]

\* Video.find(filter, 'filename podcastName _id'): the stored videos that
\* match, in the order of their identifiers
RECURSIVE FindVideosFrom(_, _, _)
FindVideosFrom(o, filter, category) ==
    IF o \notin ObjectIds
    THEN <<>>
    ELSE (IF videos[o].exists /\ (filter => videos[o].category = category)
          THEN <<Projection(o)>>
          ELSE <<>>) \o FindVideosFrom(o + 1, filter, category)

FindVideos(filter, category) == FindVideosFrom(1, filter, category)

StartList(r) ==
    /\ \/ Begin(r, [NoArg EXCEPT !.op = "list"], "l_find")
       \/ \E c \in ListCategories :
            Begin(r, [NoArg EXCEPT !.op = "list", !.filter = TRUE, !.category = c],
                  "l_find")
    /\ UNCHANGED <<dbVars, envVars, fails, loc, resp, wrote>>

\* const videos = await Video.find(...); res.json(videos)
ListFind(r) ==
    /\ pc[r] = "l_find"
    /\ Reply(r, [NoResp EXCEPT !.status = 200,
                                !.list = FindVideos(arg[r].filter, arg[r].category)])
    /\ UNCHANGED <<dbVars, envVars, fails, arg, wrote>>

ListFail(r) ==
    /\ pc[r] = "l_find"
    /\ Fail(r)
    /\ UNCHANGED <<dbVars, envVars, arg, wrote>>

(* ----------------------------- POST /signup ---------------------------- *)
passwordMinLength == 6

NotSpaceOrAt(s, from, to) ==
    /\ from <= to
    /\ \A k \in from..to : s[k] \notin {" ", "@"}

\* emailRegex = /^[^\s@]+@[^\s@]+\.[^\s@]+$/
emailRegex(s) ==
    \E i, j \in 1..Len(s) :
        /\ s[i] = "@"
        /\ s[j] = "."
        /\ NotSpaceOrAt(s, 1, i - 1)
        /\ NotSpaceOrAt(s, i + 1, j - 1)
        /\ NotSpaceOrAt(s, j + 1, Len(s))

validateInput(email, pwlen) == emailRegex(email) /\ pwlen >= passwordMinLength

\* date.toISOString().split('T')[0]: the UTC calendar date of an instant
IsoDate(instant) == instant \div TicksPerDay

\* a find whose comparison never matches (a Date compared with a string)
FindHistoryEntryNever(history, today) == 0

\* stats.signupHistory.find(entry => IsoDate(entry.date) === today): the index
\* of the first entry of that calendar date, 0 when there is none
FindHistoryEntry(history, today) ==
    IF \E i \in 1..Len(history) : IsoDate(history[i].date) = today
    THEN CHOOSE i \in 1..Len(history) :
            /\ IsoDate(history[i].date) = today
            /\ \A k \in 1..(i - 1) : IsoDate(history[k].date) # today
    ELSE 0

\* stats.save() after the signup's changes, as mongoose sends it:
\*   entry found: $set totalSignups and signupHistory.<i>.count, sent with the
\*     version the document was read at (a positional path), rejected with a
\*     VersionError when the stored version differs;
\*   no entry: $set totalSignups, $push of the new entry, $inc of the version.
SignupVersionError(doc, local, now) ==
    /\ FindHistoryEntry(local.signupHistory, IsoDate(now)) # 0
    /\ doc.v # local.v

SaveSignup(doc, local, now) ==
    LET i == FindHistoryEntry(local.signupHistory, IsoDate(now)) IN
    IF i # 0
    THEN [doc EXCEPT !.totalSignups = local.totalSignups + 1,
                     !.signupHistory[i].count = local.signupHistory[i].count + 1]
    ELSE [doc EXCEPT !.totalSignups = local.totalSignups + 1,
                     !.signupHistory = Append(@, [date |-> now, count |-> 1]),
                     !.v = @ + 1]

\* validateInput, then await bcrypt.hash and new User({...})
StartSignup(r) ==
    /\ Arrives(r)
    /\ \E e \in EmailInputs, n \in PasswordLengths :
        /\ arg' = [arg EXCEPT ![r] = [NoArg EXCEPT !.op = "signup", !.email = e,
                                                   !.pwlen = n]]
        /\ IF validateInput(e, n)
           THEN /\ pc' = [pc EXCEPT ![r] = "s_user"]
                /\ UNCHANGED <<loc, resp>>
           ELSE Respond(r, 400)
    /\ UNCHANGED <<dbVars, envVars, fails, wrote>>

\* a signup that arrives while no other request is being handled
StartSignupAlone(r) ==
    /\ \A q \in Req : ~InFlight(q)
    /\ StartSignup(r)

\* await newUser.save(): the unique index on email rejects a second record
SignupUser(r) ==
    /\ pc[r] = "s_user"
    /\ IF users[arg[r].email].exists
       THEN /\ Catch(r, "DuplicateKey")
            /\ UNCHANGED <<users, wrote>>
       ELSE /\ users' = [users EXCEPT ![arg[r].email] = [NoUser EXCEPT !.exists = TRUE]]
            /\ wrote' = [wrote EXCEPT ![r] = @ \cup {"user"}]
            /\ pc' = [pc EXCEPT ![r] = "s_stats"]
            /\ UNCHANGED <<loc, resp>>
    /\ UNCHANGED <<videos, stats, envVars, fails, arg>>

\* const stats = await Stats.findOne(); stats.totalSignups += 1 throws on null;
\* today = new Date()
SignupStatsFind(r) ==
    /\ pc[r] = "s_stats"
    /\ IF ~stats.exists
       THEN Catch(r, "TypeError")
       ELSE /\ loc' = [loc EXCEPT ![r].stats = stats, ![r].today = clock]
            /\ pc' = [pc EXCEPT ![r] = "s_ssave"]
            /\ UNCHANGED resp
    /\ UNCHANGED <<dbVars, envVars, fails, arg, wrote>>

\* await stats.save(); req.session.user = {...}; res.status(200)
SignupStatsSave(r) ==
    /\ pc[r] = "s_ssave"
    /\ IF SignupVersionError(stats, loc[r].stats, loc[r].today)
       THEN /\ Catch(r, "VersionError")
            /\ UNCHANGED <<stats, wrote>>
       ELSE /\ stats' = SaveSignup(stats, loc[r].stats, loc[r].today)
            /\ wrote' = [wrote EXCEPT ![r] = @ \cup {"stats"}]
            /\ Respond(r, 200)
    /\ UNCHANGED <<videos, users, envVars, fails, arg>>

SignupFail(r) ==
    /\ pc[r] \in {"s_user", "s_stats", "s_ssave"}
    /\ Fail(r)
    /\ UNCHANGED <<dbVars, envVars, arg, wrote>>

\* time passes
Tick ==
    /\ clock < MaxClock
    /\ clock' = clock + 1
    /\ UNCHANGED <<dbVars, initPc, nextId, fails, pc, arg, loc, resp, wrote>>

(* ------------------- POST /toggle-favorite/:videoId -------------------- *)
\* user.favorites.includes(videoId): the stored ObjectIds compared, as hex
\* strings, with the route parameter
Includes(favorites, videoId) ==
    \E i \in 1..Len(favorites) : HexOf(favorites[i]) = videoId

\* user.favorites.filter(id => id.toString() !== videoId)
FilterOut(favorites, videoId) ==
    LET Keep(id) == HexOf(id) # videoId IN SelectSeq(favorites, Keep)

\* the handler's own array after the toggle; push casts the string to ObjectId
ToggleLocal(favorites, videoId) ==
    IF Includes(favorites, videoId)
    THEN FilterOut(favorites, videoId)
    ELSE Append(favorites, CastObjectId(videoId))

\* a save() that only ever adds
SaveFavoritesPushOnly(doc, local, videoId) ==
    [doc EXCEPT !.favorites = Append(@, CastObjectId(videoId)), !.v = @ + 1]

\* user.save() after the toggle, as mongoose sends it:
\*   removal: $set of the whole favorites array and $inc of the version, sent
\*     with the version the document was read at, rejected with a VersionError
\*     when the stored version differs;
\*   addition: $push of the identifier and $inc of the version.
ToggleVersionError(doc, local, videoId) ==
    /\ Includes(local.favorites, videoId)
    /\ doc.v # local.v

SaveFavorites(doc, local, videoId) ==
    IF Includes(local.favorites, videoId)
    THEN [doc EXCEPT !.favorites = FilterOut(local.favorites, videoId), !.v = @ + 1]
    ELSE [doc EXCEPT !.favorites = Append(@, CastObjectId(videoId)), !.v = @ + 1]

\* if (!req.session.user) return 401; userId = req.session.user.email
StartToggle(r) ==
    /\ Arrives(r)
    /\ \/ /\ arg' = [arg EXCEPT ![r] = [NoArg EXCEPT !.op = "toggle"]]
          /\ Respond(r, 401)
       \/ \E e \in Emails, id \in HexIds :
            /\ arg' = [arg EXCEPT ![r] = [NoArg EXCEPT !.op = "toggle", !.session = TRUE,
                                                       !.email = e, !.id = id]]
            /\ pc' = [pc EXCEPT ![r] = "t_find"]
            /\ UNCHANGED <<loc, resp>>
    /\ UNCHANGED <<dbVars, envVars, fails, wrote>>

\* a lookup that also requires the video to be stored
ToggleFindStoredOnly(r) ==
    /\ pc[r] = "t_find"
    /\ LET user == users[arg[r].email] IN
        IF ~user.exists
        THEN Catch(r, "TypeError")
        ELSE IF ~FindVideoById(arg[r].id).exists
        THEN Respond(r, 404)
        ELSE /\ loc' = [loc EXCEPT ![r].user = user, ![r].before = user.favorites]
             /\ pc' = [pc EXCEPT ![r] = "t_save"]
             /\ UNCHANGED resp
    /\ UNCHANGED <<dbVars, envVars, fails, arg, wrote>>

\* a toggle that arrives while no other request is being handled
StartToggleAlone(r) ==
    /\ \A q \in Req : ~InFlight(q)
    /\ StartToggle(r)

\* const user = await User.findOne({ email: userId }); user.favorites throws
\* on null
ToggleFind(r) ==
    /\ pc[r] = "t_find"
    /\ LET user == users[arg[r].email] IN
        IF ~user.exists
        THEN Catch(r, "TypeError")
        ELSE /\ loc' = [loc EXCEPT ![r].user = user, ![r].before = user.favorites]
             /\ pc' = [pc EXCEPT ![r] = "t_save"]
             /\ UNCHANGED resp
    /\ UNCHANGED <<dbVars, envVars, fails, arg, wrote>>

\* includes ? filter : push; await user.save(); res.status(200).json({favorites})
ToggleSave(r) ==
    /\ pc[r] = "t_save"
    /\ LET e == arg[r].email
           id == arg[r].id IN
        IF ToggleVersionError(users[e], loc[r].user, id)
        THEN /\ Catch(r, "VersionError")
             /\ UNCHANGED <<users, wrote>>
        ELSE /\ users' = [users EXCEPT ![e] = SaveFavorites(@, loc[r].user, id)]
             /\ wrote' = [wrote EXCEPT ![r] = @ \cup {"user"}]
             /\ Reply(r, [NoResp EXCEPT !.status = 200,
                            !.favorites = ToggleLocal(loc[r].user.favorites, id)])
    /\ UNCHANGED <<videos, stats, envVars, fails, arg>>

ToggleFail(r) ==
    /\ pc[r] \in {"t_find", "t_save"}
    /\ Fail(r)
    /\ UNCHANGED <<dbVars, envVars, arg, wrote>>

(* ---------------------------- specifications --------------------------- *)
\* the server has started on an empty database; initializeStats() is pending
InitServer ==
    /\ clock = 0
    /\ initPc = "count"
    /\ nextId = 0
    /\ fails = 0
    /\ pc = [r \in Req |-> "idle"]
    /\ arg = [r \in Req |-> NoArg]
    /\ loc = [r \in Req |-> NoLocals]
    /\ resp = [r \in Req |-> NoResp]
    /\ wrote = [r \in Req |-> {}]

Init ==
    /\ videos = [o \in ObjectIds |-> NoVideo]
    /\ users = [e \in Emails |-> NoUser]
    /\ stats = NoStats
    /\ InitServer

\* the server has started on the database an earlier run left: EmailA has
\* signed up and has video 1 among the favourites, EmailB has no record;
\* video 1 is stored or not, video 2 is not
StoredVideo ==
    NewVideo([podcastName |-> "show", category |-> "news",
              mimetype |-> "video/mp4", buffer |-> "bytesA"])

InitFav ==
    /\ videos \in {[o \in ObjectIds |-> NoVideo],
                   [o \in ObjectIds |-> IF o = 1 THEN StoredVideo ELSE NoVideo]}
    /\ users = [e \in Emails |->
                  IF e = EmailA
                  THEN [exists |-> TRUE, favorites |-> <<1>>, v |-> 0]
                  ELSE NoUser]
    /\ stats = ZeroStats
    /\ InitServer

\* uploads, video fetches and homepage visits
NextViews ==
    \/ InitCount
    \/ InitCreate
    \/ \E r \in Req :
        \/ StartUpload(r)
        \/ UploadSave(r)
        \/ UploadFail(r)
        \/ StartVideo(r)
        \/ VideoFind(r)
        \/ VideoSave(r)
        \/ VideoStatsFind(r)
        \/ VideoStatsSave(r)
        \/ VideoFail(r)
        \/ StartHome(r)
        \/ HomeFind(r)
        \/ HomeSave(r)
        \/ HomeFail(r)

SpecViews == Init /\ [][NextViews]_vars

\* signups, concurrent
NextSignup ==
    \/ InitCount
    \/ InitCreate
    \/ Tick
    \/ \E r \in Req :
        \/ StartSignup(r)
        \/ SignupUser(r)
        \/ SignupStatsFind(r)
        \/ SignupStatsSave(r)
        \/ SignupFail(r)

SpecSignup == Init /\ [][NextSignup]_vars

\* signups one after another: each arrives after the previous one has returned
NextSignupSeq ==
    \/ InitCount
    \/ InitCreate
    \/ Tick
    \/ \E r \in Req :
        \/ StartSignupAlone(r)
        \/ SignupUser(r)
        \/ SignupStatsFind(r)
        \/ SignupStatsSave(r)
        \/ SignupFail(r)

SpecSignupSeq == Init /\ [][NextSignupSeq]_vars

\* favourite toggles, concurrent
NextFav ==
    \/ InitCount
    \/ \E r \in Req :
        \/ StartToggle(r)
        \/ ToggleFind(r)
        \/ ToggleSave(r)
        \/ ToggleFail(r)

SpecFav == InitFav /\ [][NextFav]_vars

\* favourite toggles one after another
NextFavSeq ==
    \/ InitCount
    \/ \E r \in Req :
        \/ StartToggleAlone(r)
        \/ ToggleFind(r)
        \/ ToggleSave(r)
        \/ ToggleFail(r)

SpecFavSeq == InitFav /\ [][NextFavSeq]_vars

\* uploads and listings
NextCatalog ==
    \E r \in Req :
        \/ StartUpload(r)
        \/ UploadSave(r)
        \/ UploadFail(r)
        \/ StartList(r)
        \/ ListFind(r)
        \/ ListFail(r)

SpecCatalog == Init /\ [][NextCatalog]_vars

(* ------------------------------- claims -------------------------------- *)
Ok(r) == resp[r].status = 200

\* the video fetches of one video, the view-recording requests, the signups
FetchesOf(o) == {r \in Req : arg[r].op = "video" /\ arg[r].id = HexOf(o)}
ViewRecordings == {r \in Req : arg[r].op \in {"video", "home"}}
Signups == {r \in Req : arg[r].op = "signup"}

\* C1: when all the fetches of one video have completed successfully, the
\* video's view counter equals the number of those fetches (it started at 0).
C1_NoLostViews ==
    \A o \in ObjectIds :
        (\A r \in FetchesOf(o) : Ok(r)) => videos[o].views = Cardinality(FetchesOf(o))

\* the toggles of one (user, video) pair; which pairs InitFav made favourites
TogglesOf(e, o) ==
    {r \in Req : arg[r].op = "toggle" /\ arg[r].session /\ arg[r].email = e
                 /\ arg[r].id = HexOf(o)}
InitiallyFavorite(e, o) == e = EmailA /\ o = 1

\* C2: when all k toggles of (u, v) have completed successfully, v is among
\* u's favourites iff (v was a favourite initially) XOR (k is odd).
C2_ToggleParity ==
    \A e \in Emails, o \in ObjectIds :
        (users[e].exists /\ \A r \in TogglesOf(e, o) : Ok(r))
        => (Includes(users[e].favorites, HexOf(o))
            <=> (InitiallyFavorite(e, o) # (Cardinality(TogglesOf(e, o)) % 2 = 1)))

\* C3: signupHistory never holds two entries of the same calendar date.
C3_OneEntryPerDate ==
    \A i, j \in 1..Len(stats.signupHistory) :
        i # j => IsoDate(stats.signupHistory[i].date) # IsoDate(stats.signupHistory[j].date)

\* C4: while no view-recording request is in progress, totalViews equals the
\* number of view-recording requests (fetches and homepage visits) that have
\* completed successfully.
C4_TotalViewsCounts ==
    (\A r \in ViewRecordings : ~InFlight(r))
    => stats.totalViews = Cardinality({r \in ViewRecordings : Ok(r)})

\* C5: when all the signups received have responded with success,
\* totalSignups equals their number (it started at 0).
C5_NoLostSignups ==
    (\A r \in Signups : Ok(r)) => stats.totalSignups = Cardinality(Signups)

\* the successful signups of one calendar date, the histogram entries of it
SignupsOn(d) == {r \in Signups : Ok(r) /\ IsoDate(loc[r].today) = d}
EntriesOn(d) ==
    {i \in 1..Len(stats.signupHistory) : IsoDate(stats.signupHistory[i].date) = d}
Dates == 0..IsoDate(MaxClock)

\* C6: with signups handled one after another, the histogram has no entry for
\* a date without a successful signup and exactly one entry for any other
\* date, whose count is the number of successful signups of that date.
C6_HistogramSequential ==
    \A d \in Dates :
        IF SignupsOn(d) = {}
        THEN EntriesOn(d) = {}
        ELSE \E i \in EntriesOn(d) :
                /\ EntriesOn(d) = {i}
                /\ stats.signupHistory[i].count = Cardinality(SignupsOn(d))

\* two signups succeeded on one calendar date
C6_Witness == \E d \in Dates : Cardinality(SignupsOn(d)) = 2

\* the successful upload that stored the video with identifier o
UploadsOf(o) ==
    {u \in Req : arg[u].op = "upload" /\ arg[u].file /\ Ok(u) /\ loc[u].oid = o}

C8_Step ==
    \A r \in Req :
        (pc[r] = "v_find" /\ pc'[r] # "v_find" /\ fails' = fails
         /\ ~FindVideoById(arg[r].id).exists)
        => /\ resp'[r].status = 404
           /\ pc'[r] = "done"
           /\ UNCHANGED <<stats, videos, users>>

C9_Step ==
    \A r \in Req :
        LET e == arg[r].email
            id == arg[r].id IN
        /\ (pc[r] = "t_find" /\ pc'[r] # "t_find" /\ fails' = fails /\ users[e].exists)
           => pc'[r] = "t_save"
        /\ (pc[r] = "t_save" /\ pc'[r] # "t_save" /\ fails' = fails
            /\ ~ToggleVersionError(users[e], loc[r].user, id))
           => /\ resp'[r].status = 200
              /\ Includes(users'[e].favorites, id) # Includes(loc[r].user.favorites, id)
              /\ Includes(resp'[r].favorites, id) # Includes(loc[r].user.favorites, id)

C10_MissingUserNotFound ==
    \A r \in Req :
        (arg[r].op = "toggle" /\ arg[r].session /\ ~users[arg[r].email].exists
         /\ pc[r] = "done" /\ resp[r].err # "StorageError")
        => (resp[r].status = 404 /\ wrote[r] = {})

\* C11: a listing answers with exactly one entry for each stored video that
\* matches the filter (every stored video without a filter), each entry
\* carrying the video's identifier, name and category and not its payload,
\* and the listing changes no collection.
EntryOf(list, o) == {i \in 1..Len(list) : list[i]._id = HexOf(o)}

C11_Step ==
    \A r \in Req :
        (pc[r] = "l_find" /\ resp'[r].status = 200)
        => LET list == resp'[r].list IN
           /\ UNCHANGED <<videos, users, stats>>
           /\ \A o \in ObjectIds :
                Cardinality(EntryOf(list, o)) =
                    IF videos[o].exists
                       /\ (arg[r].filter => videos[o].category = arg[r].category)
                    THEN 1 ELSE 0
           /\ \A i \in 1..Len(list) :
                /\ {"_id", "podcastName", "category"} \subseteq DOMAIN list[i]
                /\ "video" \notin DOMAIN list[i]
                /\ list[i].podcastName = videos[CastObjectId(list[i]._id)].podcastName
                /\ list[i].category = videos[CastObjectId(list[i]._id)].category

C11_ListEntries == [][C11_Step]_vars

\* the successful uploads
OkUploads == {u \in Req : arg[u].op = "upload" /\ Ok(u)}

\* C12: every successful upload has stored one video under an identifier no
\* other upload drew, and its response carries that identifier.
C12_UploadReturnsFreshId ==
    \A u \in OkUploads :
        /\ videos[loc[u].oid].exists
        /\ \A w \in Req : (w # u /\ arg[w].op = "upload" /\ arg[w].file)
                          => loc[w].oid # loc[u].oid
        /\ \E k \in DOMAIN resp[u].json : resp[u].json[k] = HexOf(loc[u].oid)

\* C13: no step lowers a video's view counter, totalViews or totalSignups.
C13_Step ==
    /\ \A o \in ObjectIds : videos'[o].views >= videos[o].views
    /\ stats'.totalViews >= stats.totalViews
    /\ stats'.totalSignups >= stats.totalSignups

C13_NoCounterRegression == [][C13_Step]_vars

\* C14: no identifier occurs twice in a user's stored favourites.
C14_NoDuplicateFavorites ==
    \A e \in Emails :
        \A i, j \in 1..Len(users[e].favorites) :
            i # j => users[e].favorites[i] # users[e].favorites[j]

AsSet(seq) == {seq[i] : i \in 1..Len(seq)}
SymDiff(A, B) == (A \ B) \cup (B \ A)
OkToggles == {r \in Req : arg[r].op = "toggle" /\ Ok(r)}

\* successful toggles r, then q, of one (user, video) pair with no toggle of
\* that user between them
ConsecutiveToggles(r, q) ==
    /\ r < q
    /\ r \in OkToggles
    /\ arg[q].op = "toggle"
    /\ arg[q].email = arg[r].email
    /\ arg[q].id = arg[r].id
    /\ \A p \in Req : (r < p /\ p < q)
                      => ~(arg[p].op = "toggle" /\ arg[p].email = arg[r].email)

C15_Returned ==
    \A r \in OkToggles :
        SymDiff(AsSet(resp[r].favorites), AsSet(loc[r].before))
            = {CastObjectId(arg[r].id)}

C15_Step ==
    \A q \in Req :
        (pc[q] = "t_save" /\ resp'[q].status = 200)
        => \A r \in Req :
            ConsecutiveToggles(r, q)
            => AsSet(users'[arg[q].email].favorites) = AsSet(loc[r].before)

\* C15: with toggles handled one after another, the set a toggle returns
\* differs from the favourites it found exactly in v, and the second of two
\* consecutive toggles of (u, v) leaves u's stored favourites equal, as a
\* set, to what they were before the first.
C15_ToggleTwiceRestores == []C15_Returned /\ [][C15_Step]_vars

\* two consecutive toggles of one pair have both succeeded
C15_Witness ==
    \E r, q \in Req : ConsecutiveToggles(r, q) /\ Ok(q)

\* C16: no request is left without a response: a handler that has ended has
\* answered (a handler that ended unanswered takes no further step, so its
\* request is never answered).
C16_EveryRequestAnswered ==
    \A r \in Req : Ended(r) => resp[r].status # 0

\* C17: a view recording or a signup never fails on an absent Stats record:
\* none ends in the TypeError of reading a field of null, and none is left
\* unanswered while no database call was rejected.
C17_StatsCreatedLazily ==
    \A r \in Req :
        arg[r].op \in {"video", "home", "signup"}
        => /\ resp[r].err # "TypeError"
           /\ (pc[r] = "hung" => fails > 0)

RECURSIVE SumCounts(_)
SumCounts(history) ==
    IF history = <<>> THEN 0 ELSE Head(history).count + SumCounts(Tail(history))

\* C18: while no signup is in progress, totalSignups equals the sum of the
\* counts of the histogram's entries.
C18_SignupsMatchHistogram ==
    (\A r \in Signups : ~InFlight(r))
    => stats.totalSignups = SumCounts(stats.signupHistory)

\* C19: a signup that was answered with an error has stored no User record.
C19_FailedSignupStoresNoUser ==
    \A r \in Signups :
        resp[r].status \in {400, 500} => "user" \notin wrote[r]

\* C20: a video fetch that was answered with a failure has not raised the
\* video's view counter.
C20_FailedFetchCountsNoView ==
    \A r \in Req :
        (arg[r].op = "video" /\ resp[r].status \in {404, 500})
        => "video" \notin wrote[r]

====
